---- MODULE Spec2Model ----
(***************************************************************************)
(* Model of the two agent modules of study_adk:                            *)
(*   3-litellm-agent/litellm_agent/agent.py   (the dad-joke tool agent)    *)
(*   4-structured-outputs/email_agent/agent.py (the EmailContent schema)   *)
(* The state is the process environment, the namespace of each module once *)
(* it has been imported, and the observable results of the operations the  *)
(* Agent Runtime performs on them: tool calls, validations of candidate    *)
(* JSON records against EmailContent, and serializations of the schema.    *)
(***************************************************************************)
EXTENDS Integers, Sequences, FiniteSets, TLC

VARIABLES environ, litellm_agent, email_agent, returned, validated, serialized

vars == <<environ, litellm_agent, email_agent, returned, validated, serialized>>

\* Bounds of the exploration.
MaxCalls == 2
MaxSerializations == 2

(***************************************************************************)
(* Python / JSON values: a type tag and the literal text of the value.     *)
(***************************************************************************)
PyNone == [type |-> "NoneType", value |-> "None"]

PyStr(s) == [type |-> "str", value |-> s]

PyInt(text) == [type |-> "int", value |-> text]

PyList(text) == [type |-> "list", value |-> text]

\* Values the environment variable OPENAI_KEY may hold when it is set.
KeyValues == {"", "sk-test"}

\* The process environments explored: OPENAI_KEY unset, or set to a value.
Environments ==
    {[n \in {} |-> ""]} \cup {[n \in {"OPENAI_KEY"} |-> v] : v \in KeyValues}

\* os.getenv(name): the variable's value, or None when it is not set.
os_getenv(env, name) ==
    IF name \in DOMAIN env THEN PyStr(env[name]) ELSE PyNone

\* LiteLlm(model=..., api_key=...): the constructor stores what it is given.
LiteLlm(model_name, api_key) ==
    [model |-> model_name, api_key |-> api_key]

\* The list literal built by get_dad_joke.
jokes ==
    << "Why did the chicken cross the road? To get to the other side!",
       "Why don't scientists trust atoms? Because they make up everything!",
       "Why did the scarecrow win an award? Because he was outstanding in his field!",
       "Why don't skeletons fight each other? They don't have the guts!",
       "Why did the bicycle fall over? Because it was two-tired!" >>

\* The function object bound by `def get_dad_joke()`: its name, docstring and
\* the literals of its body.
get_dad_joke_function ==
    [name |-> "get_dad_joke", doc |-> "Get a random dad joke.", jokes |-> jokes]

\* Mutant: random.randrange(len(seq)) returned instead of the element chosen.
random_choice_index(seq) ==
    IF Len(seq) = 0
    THEN {[kind |-> "raise", value |-> [type |-> "IndexError", value |-> "empty"]]}
    ELSE {[kind |-> "return", value |-> PyInt(ToString(i - 1))] : i \in 1..Len(seq)}

\* Mutant: the index drawn from 0..len(seq) inclusive, one past the end.
random_choice_off_by_one(seq) ==
    {[kind |-> "return", value |-> PyStr(seq[i])] : i \in 1..Len(seq)}
        \cup {[kind |-> "raise", value |-> [type |-> "IndexError", value |-> "range"]]}

\* random.choice(seq): every outcome the call can have.  An empty sequence
\* raises IndexError; otherwise any one element is returned.
random_choice(seq) ==
    IF Len(seq) = 0
    THEN {[kind |-> "raise", value |-> [type |-> "IndexError", value |-> "empty"]]}
    ELSE {[kind |-> "return", value |-> PyStr(seq[i])] : i \in 1..Len(seq)}

\* Agent(name=..., model=..., ..., tools=[get_dad_joke]) of the joke module.
litellm_root_agent(model) ==
    [name |-> "litellm_agent",
     model |-> model,
     description |-> "Dad Joke Agent",
     instruction |-> "You are a helpful assistant that can tell dad jokes. Only use the tool 'get_dad_joke' to tell dad jokes.",
     tools |-> <<"get_dad_joke">>]

(***************************************************************************)
(* The EmailContent schema.                                                *)
(***************************************************************************)
\* Mutant: the first field misspelt, so "subject" is no field of the schema.
EmailContent_misspelt ==
    [name |-> "EmailContent",
     fields |-> << [name |-> "subjet", annotation |-> "str", required |-> TRUE,
                    description |-> "The subject of the email"],
                   [name |-> "body", annotation |-> "str", required |-> TRUE,
                    description |-> "The body of the email"] >>]

\* Mutant: body declared with a default, Field("", ...), so it is optional.
EmailContent_body_default ==
    [name |-> "EmailContent",
     fields |-> << [name |-> "subject", annotation |-> "str", required |-> TRUE,
                    description |-> "The subject of the email"],
                   [name |-> "body", annotation |-> "str", required |-> FALSE,
                    default |-> PyStr(""),
                    description |-> "The body of the email"] >>]

\* Mutant: subject left untyped (Any), so any value is taken as it is.
EmailContent_subject_any ==
    [name |-> "EmailContent",
     fields |-> << [name |-> "subject", annotation |-> "Any", required |-> TRUE,
                    description |-> "The subject of the email"],
                   [name |-> "body", annotation |-> "str", required |-> TRUE,
                    description |-> "The body of the email"] >>]

\* class EmailContent(BaseModel): two fields, each annotated str and declared
\* with Field(...), that is, required and without a default.
EmailContent ==
    [name |-> "EmailContent",
     fields |-> << [name |-> "subject", annotation |-> "str", required |-> TRUE,
                    description |-> "The subject of the email"],
                   [name |-> "body", annotation |-> "str", required |-> TRUE,
                    description |-> "The body of the email"] >>]

\* Agent(name="email_agent", ..., output_schema=EmailContent, output_key="email").
email_root_agent ==
    [name |-> "email_agent",
     model |-> "gemini-2.0-flash",
     instruction |-> "You are an Email Generation Assistant. ... Your response MUST be valid JSON matching this structure: {subject, body}",
     description |-> "Generate professional emails with structured subject and body",
     output_schema |-> "EmailContent",
     output_key |-> "email"]

FieldIndexes(cls) == 1..Len(cls.fields)

FieldNames(cls) == {cls.fields[i].name : i \in FieldIndexes(cls)}

\* The errors BaseModel validation collects for a candidate record: one per
\* field, "missing" for a required field that is absent and "string_type" for
\* a str field whose value is not a string.  Keys that are no field of the
\* model are ignored.
validation_errors(cls, cand) ==
    {[type |-> "missing", loc |-> cls.fields[i].name] :
        i \in {k \in FieldIndexes(cls) :
                  /\ cls.fields[k].required
                  /\ cls.fields[k].name \notin DOMAIN cand}}
    \cup
    {[type |-> "string_type", loc |-> cls.fields[i].name] :
        i \in {k \in FieldIndexes(cls) :
                  /\ cls.fields[k].name \in DOMAIN cand
                  /\ cls.fields[k].annotation = "str"
                  /\ cand[cls.fields[k].name].type # "str"}}

\* The value a field of the validated record takes.
field_value(f, cand) ==
    IF f.name \in DOMAIN cand THEN cand[f.name] ELSE f.default

\* The record validation builds: one attribute per field of the model.
validated_record(cls, cand) ==
    [n \in FieldNames(cls) |->
        field_value(cls.fields[CHOOSE i \in FieldIndexes(cls) : cls.fields[i].name = n],
                    cand)]

\* EmailContent.model_validate(candidate): the record, or ValidationError
\* carrying every error found.
validate(cls, cand) ==
    IF validation_errors(cls, cand) = {}
    THEN [kind |-> "return", candidate |-> cand, value |-> validated_record(cls, cand)]
    ELSE [kind |-> "raise", candidate |-> cand, exc |-> "ValidationError",
          errors |-> validation_errors(cls, cand)]

\* The JSON Schema type of an annotation.
json_type(annotation) ==
    CASE annotation = "str" -> "string"
      [] annotation = "int" -> "integer"
      [] OTHER -> "any"

\* The title JSON Schema generation derives from a name.
json_title(name) ==
    CASE name = "subject" -> "Subject"
      [] name = "body" -> "Body"
      [] OTHER -> name

\* EmailContent.model_json_schema(): the JSON Schema of the model.
json_schema(cls) ==
    [title |-> cls.name,
     type |-> "object",
     properties |->
        [n \in FieldNames(cls) |->
            LET f == cls.fields[CHOOSE i \in FieldIndexes(cls) : cls.fields[i].name = n]
            IN  [title |-> json_title(n), type |-> json_type(f.annotation),
                 description |-> f.description]],
     required |->
        {cls.fields[i].name : i \in {k \in FieldIndexes(cls) : cls.fields[k].required}}]

(***************************************************************************)
(* Candidate records: JSON objects as the generation backend may emit them.*)
(***************************************************************************)
CandidateKeys == {"subject", "body", "attachments"}

CandidateValues(key) ==
    CASE key = "subject" -> {PyStr("Hi"), PyStr(""), PyInt("123")}
      [] key = "body" -> {PyStr("Hello"), PyInt("123"), PyNone}
      [] OTHER -> {PyList("[]")}

Candidates ==
    UNION {{c \in [D -> UNION {CandidateValues(k) : k \in D}] :
               \A k \in D : c[k] \in CandidateValues(k)} : D \in SUBSET CandidateKeys}

(***************************************************************************)
(* The state machine.                                                      *)
(***************************************************************************)
Unloaded == [status |-> "unloaded"]

NotValidated == [kind |-> "none"]

Init ==
    /\ environ \in Environments
    /\ litellm_agent = Unloaded
    /\ email_agent = Unloaded
    /\ returned = <<>>
    /\ validated = NotValidated
    /\ serialized = <<>>

\* Mutant: the credential loaded by a step that refuses an unset variable.
import_litellm_agent_strict ==
    /\ litellm_agent = Unloaded
    /\ litellm_agent' =
          IF "OPENAI_KEY" \in DOMAIN environ
          THEN [status |-> "loaded",
                model |-> LiteLlm("gpt-4o-mini", os_getenv(environ, "OPENAI_KEY")),
                get_dad_joke |-> get_dad_joke_function,
                root_agent |->
                    litellm_root_agent(
                        LiteLlm("gpt-4o-mini", os_getenv(environ, "OPENAI_KEY")))]
          ELSE [status |-> "failed", error |-> "MissingCredentialError"]
    /\ UNCHANGED <<environ, email_agent, returned, validated, serialized>>

\* Import of litellm_agent/agent.py: model, get_dad_joke and root_agent are
\* bound in this order; no statement of the module raises.
import_litellm_agent ==
    /\ litellm_agent = Unloaded
    /\ litellm_agent' =
          [status |-> "loaded",
           model |-> LiteLlm("gpt-4o-mini", os_getenv(environ, "OPENAI_KEY")),
           get_dad_joke |-> get_dad_joke_function,
           root_agent |->
               litellm_root_agent(
                   LiteLlm("gpt-4o-mini", os_getenv(environ, "OPENAI_KEY")))]
    /\ UNCHANGED <<environ, email_agent, returned, validated, serialized>>

\* Import of email_agent/agent.py: EmailContent and root_agent are bound.
import_email_agent ==
    /\ email_agent = Unloaded
    /\ email_agent' =
          [status |-> "loaded",
           EmailContent |-> EmailContent,
           root_agent |-> email_root_agent]
    /\ UNCHANGED <<environ, litellm_agent, returned, validated, serialized>>

\* Mutant: the list kept across calls and the chosen joke removed from it.
get_dad_joke_pop ==
    /\ litellm_agent.status = "loaded"
    /\ Len(returned) < MaxCalls
    /\ Len(litellm_agent.get_dad_joke.jokes) > 0
    /\ \E i \in 1..Len(litellm_agent.get_dad_joke.jokes) :
          /\ returned' =
                Append(returned,
                       [kind |-> "return",
                        value |-> PyStr(litellm_agent.get_dad_joke.jokes[i])])
          /\ litellm_agent' =
                [litellm_agent EXCEPT !.get_dad_joke.jokes =
                    SubSeq(@, 1, i - 1) \o SubSeq(@, i + 1, Len(@))]
    /\ UNCHANGED <<environ, email_agent, validated, serialized>>

\* A call of the tool by the Agent Runtime: the list is built from the
\* literals and one element of it is chosen.
get_dad_joke ==
    /\ litellm_agent.status = "loaded"
    /\ Len(returned) < MaxCalls
    /\ \E outcome \in random_choice(litellm_agent.get_dad_joke.jokes) :
          returned' = Append(returned, outcome)
    /\ UNCHANGED <<environ, litellm_agent, email_agent, validated, serialized>>

\* Validation of a candidate record against the output schema.
model_validate ==
    /\ email_agent.status = "loaded"
    /\ \E cand \in Candidates :
          validated' = validate(email_agent.EmailContent, cand)
    /\ UNCHANGED <<environ, litellm_agent, email_agent, returned, serialized>>

\* Mutant: serialization that strips the descriptions from the model's own
\* field definitions once it has emitted them.
model_json_schema_inplace ==
    /\ email_agent.status = "loaded"
    /\ Len(serialized) < MaxSerializations
    /\ serialized' = Append(serialized, json_schema(email_agent.EmailContent))
    /\ email_agent' =
          [email_agent EXCEPT !.EmailContent.fields =
              [i \in DOMAIN @ |-> [@[i] EXCEPT !.description = ""]]]
    /\ UNCHANGED <<environ, litellm_agent, returned, validated>>

\* Serialization of the output schema to JSON Schema.
model_json_schema ==
    /\ email_agent.status = "loaded"
    /\ Len(serialized) < MaxSerializations
    /\ serialized' = Append(serialized, json_schema(email_agent.EmailContent))
    /\ UNCHANGED <<environ, litellm_agent, email_agent, returned, validated>>

Next ==
    \/ import_litellm_agent
    \/ import_email_agent
    \/ get_dad_joke
    \/ model_validate
    \/ model_json_schema

Spec == Init /\ [][Next]_vars

(***************************************************************************)
(* Properties.                                                             *)
(***************************************************************************)
Loaded(module) == module.status = "loaded"

\* The jokes a call may return, as values.
JokeValues == {PyStr(jokes[i]) : i \in DOMAIN jokes}

\* The fields of EmailContent a candidate lacks, and those it gives with a
\* value that is not a string.
MissingFields(cand) == {"subject", "body"} \ DOMAIN cand

NonStringFields(cand) ==
    {f \in {"subject", "body"} \cap DOMAIN cand : cand[f].type # "str"}

\* C1: after any number of calls of get_dad_joke, every value a call returned
\* is one of the five literal jokes; no call returns a value outside that set.
C1_Membership ==
    /\ Cardinality(JokeValues) = Len(jokes)
    /\ \A i \in DOMAIN returned :
          returned[i].kind = "return" => returned[i].value \in JokeValues

C1_Witness ==
    /\ Len(returned) = MaxCalls
    /\ \A i \in DOMAIN returned : returned[i].kind = "return"
    /\ returned[1].value # returned[Len(returned)].value

\* C2: the joke list is never empty once the module is loaded, and every call
\* of get_dad_joke completes by returning a string: it never raises and never
\* returns None.
C2_NonEmpty ==
    /\ Loaded(litellm_agent) => Len(litellm_agent.get_dad_joke.jokes) > 0
    /\ \A i \in DOMAIN returned :
          /\ returned[i].kind = "return"
          /\ returned[i].value.type = "str"

C2_Witness ==
    /\ Loaded(litellm_agent)
    /\ Len(returned) >= 1
    /\ returned[1] = [kind |-> "return", value |-> PyStr(jokes[Len(jokes)])]

\* C3: validation of a candidate succeeds exactly when subject and body are
\* both present and both strings (the empty string included), and the record
\* it yields gives back, field by field, the values of the candidate.
C3_Acceptance ==
    validated.kind # "none" =>
        /\ validated.kind = "return" <=>
              /\ MissingFields(validated.candidate) = {}
              /\ NonStringFields(validated.candidate) = {}
        /\ validated.kind = "return" =>
              /\ DOMAIN validated.value = {"subject", "body"}
              /\ validated.value["subject"] = validated.candidate["subject"]
              /\ validated.value["body"] = validated.candidate["body"]

C3_Witness ==
    /\ validated.kind = "return"
    /\ validated.candidate = [k \in {"subject", "body"} |->
                                 IF k = "subject" THEN PyStr("Hi") ELSE PyStr("Hello")]
    /\ validated.value["subject"].value = "Hi"
    /\ validated.value["body"].value = "Hello"

\* C4: a candidate that lacks subject, body or both fails validation with an
\* error that names every missing field, and no record is produced.
C4_MissingField ==
    (validated.kind # "none" /\ MissingFields(validated.candidate) # {}) =>
        /\ validated.kind = "raise"
        /\ validated.exc = "ValidationError"
        /\ "value" \notin DOMAIN validated
        /\ \A f \in MissingFields(validated.candidate) :
              [type |-> "missing", loc |-> f] \in validated.errors

C4_Witness ==
    /\ validated.kind = "raise"
    /\ validated.candidate = [k \in {"subject"} |-> PyStr("Hi")]
    /\ validated.errors = {[type |-> "missing", loc |-> "body"]}

\* C5: a candidate whose subject or body is present but is not a string fails
\* validation with an error naming that field; the value is never coerced to
\* a string and accepted.
C5_WrongType ==
    (validated.kind # "none" /\ NonStringFields(validated.candidate) # {}) =>
        /\ validated.kind = "raise"
        /\ validated.exc = "ValidationError"
        /\ \A f \in NonStringFields(validated.candidate) :
              [type |-> "string_type", loc |-> f] \in validated.errors

C5_Witness ==
    /\ validated.kind = "raise"
    /\ validated.candidate = [k \in {"subject", "body"} |->
                                 IF k = "subject" THEN PyInt("123") ELSE PyStr("Hello")]
    /\ validated.errors = {[type |-> "string_type", loc |-> "subject"]}

\* C6: once a module is loaded no operation changes it: after every tool call,
\* validation and serialization the joke list is the same five jokes in the
\* same order, the schema has the same two required string fields, and both
\* agent configurations are as they were.
C6_Immutable ==
    [][/\ Loaded(litellm_agent) => litellm_agent' = litellm_agent
       /\ Loaded(email_agent) => email_agent' = email_agent
       /\ Loaded(litellm_agent') => litellm_agent'.get_dad_joke.jokes = jokes
       /\ Loaded(email_agent') =>
             /\ Len(email_agent'.EmailContent.fields) = Cardinality({"subject", "body"})
             /\ \A i \in DOMAIN email_agent'.EmailContent.fields :
                   /\ email_agent'.EmailContent.fields[i].name \in {"subject", "body"}
                   /\ email_agent'.EmailContent.fields[i].annotation = "str"
                   /\ email_agent'.EmailContent.fields[i].required]_vars

C6_Witness ==
    /\ Loaded(litellm_agent)
    /\ Loaded(email_agent)
    /\ Len(returned) = MaxCalls
    /\ validated.kind = "raise"
    /\ Len(serialized) >= 1
    /\ litellm_agent.get_dad_joke.jokes = jokes
    /\ email_agent.EmailContent = EmailContent

C10_InitNeverFails ==
    /\ litellm_agent.status \in {"unloaded", "loaded"}
    /\ litellm_agent.status = "unloaded" => ENABLED import_litellm_agent
    /\ Loaded(litellm_agent) =>
          /\ litellm_agent.model.model = "gpt-4o-mini"
          /\ litellm_agent.model.api_key =
                IF "OPENAI_KEY" \in DOMAIN environ
                THEN PyStr(environ["OPENAI_KEY"])
                ELSE PyNone
          /\ litellm_agent.root_agent.model = litellm_agent.model
          /\ litellm_agent.root_agent.tools = <<litellm_agent.get_dad_joke.name>>
          /\ litellm_agent.get_dad_joke.name = "get_dad_joke"

C10_Witness ==
    /\ "OPENAI_KEY" \notin DOMAIN environ
    /\ Loaded(litellm_agent)
    /\ litellm_agent.model.api_key = PyNone
    /\ litellm_agent.root_agent.tools = <<"get_dad_joke">>

====
